---- MODULE Spec2Model ----
(***************************************************************************)
(* Job service of app/main.go: an HTTP front door (createJob, getJob) over *)
(* an SQS queue and an S3 bucket, and the optional background workerLoop   *)
(* that receives one message at a time, stores its JobResult and deletes   *)
(* the message.                                                            *)
(*                                                                         *)
(* Strings are sequences of characters; the empty string is << >>.  A job  *)
(* id generated by uuid.New is the one-character string << n >>.  The body *)
(* of a request, of a queue message and of a stored object is a JSON       *)
(* document: syntactically invalid text, a JSON value whose shape does not *)
(* fit the Go struct it is decoded into, null, or an object with string    *)
(* members.                                                                *)
(***************************************************************************)
EXTENDS Naturals, Sequences, FiniteSets, Bags, TLC

VARIABLES
    env,            \* main: the value of the environment variable WORKER_ENABLED
    workerEnabled,  \* main: os.Getenv("WORKER_ENABLED") == "true"
    queue,          \* the SQS queue: a bag of message bodies
    store,          \* the S3 bucket: object key -> object body
    posts,          \* the createJob requests that decoded, in order of arrival
    lastResp,       \* the request and response of the last handler that answered at once
    wpc,            \* where the workerLoop goroutine is
    wmsg,           \* the message the workerLoop holds
    processed,      \* history: the message bodies processMessage returned nil for
    rejected,       \* history: the message bodies processMessage could not decode
    deleted         \* history: the bag of message bodies DeleteMessage removed

vars == <<env, workerEnabled, queue, store, posts, lastResp, wpc, wmsg,
          processed, rejected, deleted>>

(***************************************************************************)
(* Bounds of the model.                                                    *)
(***************************************************************************)
MaxPosts == 2       \* createJob requests that reach uuid.New
MaxForeign == 1     \* messages of other producers waiting in the queue

(***************************************************************************)
(* net/http status codes and methods.                                      *)
(***************************************************************************)
StatusOK == 200
StatusCreated == 201
StatusBadRequest == 400
StatusNotFound == 404
StatusMethodNotAllowed == 405
StatusInternalServerError == 500
StatusServiceUnavailable == 503

(***************************************************************************)
(* Strings.                                                                *)
(***************************************************************************)
EmptyString == << >>

\* The texts the clients submit: the empty one, and one of mixed case.
Texts == {EmptyString, <<"a", "B">>}

\* The instants time.Now returns (the wall clock need not advance between
\* two readings, and may be set back); 0 is the zero time.Time.
Times == {1, 2}

\* Mutant: a ToUpper that leaves every character as it is.
ToUpperRuneIdentity(c) == c

\* unicode.ToUpper on one character
ToUpperRune(c) ==
    CASE c = "a" -> "A"
      [] c = "b" -> "B"
      [] OTHER -> c

\* strings.ToUpper
ToUpper(s) == [i \in 1..Len(s) |-> ToUpperRune(s[i])]

(***************************************************************************)
(* JSON documents and encoding/json.                                       *)
(***************************************************************************)
InvalidJSON == [kind |-> "invalid"]

MismatchJSON == [kind |-> "mismatch"]

NullJSON == [kind |-> "null"]

ObjectJSON(fields) == [kind |-> "object", fields |-> fields]

PlainText(s) == [kind |-> "text", text |-> s]

\* The string member k of an object; a member that is absent leaves the
\* struct field at its zero value.
Member(doc, k, zero) ==
    IF k \in DOMAIN doc.fields THEN doc.fields[k] ELSE zero

\* Whether Decode/Unmarshal into a struct returns an error.
DecodeFails(doc) == doc.kind \in {"invalid", "mismatch"}

\* json.NewDecoder(r.Body).Decode(&req) with req a JobRequest
DecodeJobRequest(doc) ==
    IF DecodeFails(doc) THEN [err |-> TRUE, Text |-> EmptyString]
    ELSE IF doc.kind = "null" THEN [err |-> FALSE, Text |-> EmptyString]
    ELSE [err |-> FALSE, Text |-> Member(doc, "text", EmptyString)]

\* json.Marshal(message) with message a JobMessage; Marshal of a struct of
\* strings returns no error, so the 500 "failed to encode message" is dead.
MarshalJobMessage(m) == ObjectJSON([id |-> m.ID, text |-> m.Text])

\* Mutant: a body that does not decode yields the zero JobMessage and no error.
UnmarshalJobMessageLenient(doc) ==
    IF doc.kind # "object"
    THEN [err |-> FALSE, ID |-> EmptyString, Text |-> EmptyString]
    ELSE [err |-> FALSE,
          ID |-> Member(doc, "id", EmptyString),
          Text |-> Member(doc, "text", EmptyString)]

\* json.Unmarshal([]byte(*message.Body), &jobMsg)
UnmarshalJobMessage(doc) ==
    IF DecodeFails(doc)
    THEN [err |-> TRUE, ID |-> EmptyString, Text |-> EmptyString]
    ELSE IF doc.kind = "null"
    THEN [err |-> FALSE, ID |-> EmptyString, Text |-> EmptyString]
    ELSE [err |-> FALSE,
          ID |-> Member(doc, "id", EmptyString),
          Text |-> Member(doc, "text", EmptyString)]

\* Mutant: the id is left out of the encoded JobResult.
MarshalJobResultNoID(r) ==
    ObjectJSON([id |-> EmptyString, text |-> r.Text, output |-> r.Output,
                processed_at |-> r.ProcessedAt])

\* json.Marshal(jobResult) with jobResult a JobResult (no error either)
MarshalJobResult(r) ==
    ObjectJSON([id |-> r.ID, text |-> r.Text, output |-> r.Output,
                processed_at |-> r.ProcessedAt])

\* Mutant: Output is read from the member "text".
UnmarshalJobResultWrongMember(doc) ==
    IF DecodeFails(doc) \/ doc.kind = "null"
    THEN [err |-> DecodeFails(doc), ID |-> EmptyString, Text |-> EmptyString,
          Output |-> EmptyString, ProcessedAt |-> 0]
    ELSE [err |-> FALSE,
          ID |-> Member(doc, "id", EmptyString),
          Text |-> Member(doc, "text", EmptyString),
          Output |-> Member(doc, "text", EmptyString),
          ProcessedAt |-> Member(doc, "processed_at", 0)]

\* json.NewDecoder(result.Body).Decode(&jobResult); the zero time.Time is 0
UnmarshalJobResult(doc) ==
    IF DecodeFails(doc)
    THEN [err |-> TRUE, ID |-> EmptyString, Text |-> EmptyString,
          Output |-> EmptyString, ProcessedAt |-> 0]
    ELSE IF doc.kind = "null"
    THEN [err |-> FALSE, ID |-> EmptyString, Text |-> EmptyString,
          Output |-> EmptyString, ProcessedAt |-> 0]
    ELSE [err |-> FALSE,
          ID |-> Member(doc, "id", EmptyString),
          Text |-> Member(doc, "text", EmptyString),
          Output |-> Member(doc, "output", EmptyString),
          ProcessedAt |-> Member(doc, "processed_at", 0)]

\* Mutant: the id is left out of the key.
KeyWithoutID(jobID) == <<"jobs/", EmptyString, ".json">>

\* fmt.Sprintf("jobs/%s.json", jobID)
Key(jobID) == <<"jobs/", jobID, ".json">>

(***************************************************************************)
(* uuid.New().String(): an id no earlier call returned.                    *)
(***************************************************************************)
UsedIDs == {posts[r].jobID : r \in 1..Len(posts)}

NewUUID == << CHOOSE n \in 1..(Len(posts) + 1) : <<n>> \notin UsedIDs >>

(***************************************************************************)
(* The request bodies and job ids the clients send.                        *)
(***************************************************************************)
RequestBodies ==
    {InvalidJSON, MismatchJSON, ObjectJSON([other |-> EmptyString])}
        \cup {ObjectJSON([text |-> t]) : t \in Texts}

\* The empty id, the id of the first job, and an id uuid.New never returns here.
PathIDs == {EmptyString, <<1>>, <<MaxPosts + 1>>}

NoMessage == [kind |-> "none"]

\* The values WORKER_ENABLED is started with; unset reads as the empty string.
EnvValues == {"true", "TRUE", "1", ""}

\* Mutant: any value that is not empty enables the worker.
WorkerEnabledFlagNonEmpty(value) == value # ""

\* os.Getenv("WORKER_ENABLED") == "true"
WorkerEnabledFlag(value) == value = "true"

NoResponse == [op |-> "none"]

Init ==
    /\ env \in EnvValues
    /\ workerEnabled = WorkerEnabledFlag(env)
    /\ queue = EmptyBag
    /\ store = << >>
    /\ posts = << >>
    /\ lastResp = NoResponse
    /\ wpc = IF workerEnabled THEN "receive" ELSE "off"
    /\ wmsg = NoMessage
    /\ processed = {}
    /\ rejected = {}
    /\ deleted = EmptyBag

(***************************************************************************)
(* healthz, readyz                                                         *)
(***************************************************************************)
\* main builds both clients before it registers the handlers, and nothing
\* assigns them afterwards.
ClientsSet == TRUE

healthz(method) ==
    /\ lastResp' =
         IF method # "GET"
         THEN [op |-> "healthz", method |-> method,
               status |-> StatusMethodNotAllowed,
               body |-> PlainText("method not allowed")]
         ELSE [op |-> "healthz", method |-> method,
               status |-> StatusOK, body |-> PlainText("ok")]
    /\ UNCHANGED <<env, workerEnabled, queue, store, posts, wpc, wmsg,
                   processed, rejected, deleted>>

readyz(method) ==
    /\ lastResp' =
         IF method # "GET"
         THEN [op |-> "readyz", method |-> method,
               status |-> StatusMethodNotAllowed,
               body |-> PlainText("method not allowed")]
         ELSE IF ~ClientsSet
         THEN [op |-> "readyz", method |-> method,
               status |-> StatusServiceUnavailable,
               body |-> PlainText("not ready")]
         ELSE [op |-> "readyz", method |-> method,
               status |-> StatusOK, body |-> PlainText("ready")]
    /\ UNCHANGED <<env, workerEnabled, queue, store, posts, wpc, wmsg,
                   processed, rejected, deleted>>

(***************************************************************************)
(* createJob                                                               *)
(***************************************************************************)
\* Mutant: the decode error is not returned, and the handler goes on to
\* enqueue a message for the zero JobRequest and to answer 201.
createJobRejectFallsThrough(method, body) ==
    /\ \/ method # "POST"
       \/ DecodeJobRequest(body).err
    /\ lastResp' =
         [op |-> "createJob", method |-> method,
          req |-> IF method # "POST" THEN NoMessage ELSE body,
          status |-> IF method # "POST" THEN StatusMethodNotAllowed
                     ELSE StatusCreated,
          body |-> IF method # "POST" THEN PlainText("method not allowed")
                   ELSE ObjectJSON([id |-> NewUUID])]
    /\ queue' = IF method # "POST" THEN queue
                ELSE queue (+) SetToBag({ObjectJSON([id |-> NewUUID,
                                                     text |-> EmptyString])})
    /\ UNCHANGED <<env, workerEnabled, store, posts, wpc, wmsg,
                   processed, rejected, deleted>>

\* The answers createJob gives before it generates an id: the method is not
\* POST (the body is not read), or the body does not decode.
createJobReject(method, body) ==
    /\ \/ method # "POST"
       \/ DecodeJobRequest(body).err
    /\ lastResp' =
         [op |-> "createJob", method |-> method,
          req |-> IF method # "POST" THEN NoMessage ELSE body,
          status |-> IF method # "POST" THEN StatusMethodNotAllowed
                     ELSE StatusBadRequest,
          body |-> IF method # "POST" THEN PlainText("method not allowed")
                   ELSE PlainText("invalid JSON")]
    /\ UNCHANGED <<env, workerEnabled, queue, store, posts, wpc, wmsg,
                   processed, rejected, deleted>>

\* Mutant: the message is built without the request's text.
NewJobMessageNoText(jobID, req) == [ID |-> jobID, Text |-> EmptyString]

\* The JobMessage createJob builds from the decoded request and the new id.
NewJobMessage(jobID, req) == [ID |-> jobID, Text |-> req.Text]

\* Decode, uuid.New and json.Marshal: the request now holds its message.
createJobBegin(body) ==
    /\ Len(posts) < MaxPosts
    /\ ~DecodeJobRequest(body).err
    /\ LET req == DecodeJobRequest(body)
           jobID == NewUUID
           message == NewJobMessage(jobID, req)
       IN posts' = Append(posts,
              [pc |-> "send", req |-> [Text |-> req.Text], jobID |-> jobID,
               messageBody |-> MarshalJobMessage(message),
               status |-> 0, body |-> NoMessage])
    /\ UNCHANGED <<env, workerEnabled, queue, store, lastResp, wpc, wmsg,
                   processed, rejected, deleted>>

\* sqsClient.SendMessage: the queue after the call.  A call that returns an
\* error has enqueued nothing.
SendMessage(messageBody, sendOk) ==
    IF sendOk THEN queue (+) SetToBag({messageBody}) ELSE queue

\* Mutant: a failed SendMessage is tried once more, the second call enqueues
\* the message, and the request is answered 500 all the same.
createJobSendRetries(r, sendOk) ==
    /\ posts[r].pc = "send"
    /\ queue' = SendMessage(posts[r].messageBody, TRUE)
    /\ posts' = IF sendOk
                THEN [posts EXCEPT ![r].pc = "respond"]
                ELSE [posts EXCEPT ![r].pc = "done",
                                   ![r].status = StatusInternalServerError,
                                   ![r].body = PlainText("failed to send message")]
    /\ UNCHANGED <<env, workerEnabled, store, lastResp, wpc, wmsg,
                   processed, rejected, deleted>>

\* SendMessage, and the 500 when it fails.
createJobSend(r, sendOk) ==
    /\ posts[r].pc = "send"
    /\ queue' = SendMessage(posts[r].messageBody, sendOk)
    /\ posts' = IF sendOk
                THEN [posts EXCEPT ![r].pc = "respond"]
                ELSE [posts EXCEPT ![r].pc = "done",
                                   ![r].status = StatusInternalServerError,
                                   ![r].body = PlainText("failed to send message")]
    /\ UNCHANGED <<env, workerEnabled, store, lastResp, wpc, wmsg,
                   processed, rejected, deleted>>

\* The 201 with the id.
createJobRespond(r) ==
    /\ posts[r].pc = "respond"
    /\ posts' = [posts EXCEPT ![r].pc = "done",
                              ![r].status = StatusCreated,
                              ![r].body = ObjectJSON([id |-> posts[r].jobID])]
    /\ UNCHANGED <<env, workerEnabled, queue, store, lastResp, wpc, wmsg,
                   processed, rejected, deleted>>

\* The requests createJob answers with 405 or 400.
createJobRejected ==
    \/ createJobReject("GET", InvalidJSON)
    \/ \E body \in RequestBodies : createJobReject("POST", body)

\* The requests createJob takes to the queue.
createJobAccepted ==
    \/ \E body \in RequestBodies : createJobBegin(body)
    \/ \E r \in 1..Len(posts), sendOk \in BOOLEAN : createJobSend(r, sendOk)
    \/ \E r \in 1..Len(posts) : createJobRespond(r)

createJob ==
    \/ createJobRejected
    \/ createJobAccepted

(***************************************************************************)
(* getJob                                                                  *)
(***************************************************************************)
\* s3Client.GetObject: the object under key, or an error when there is none
\* or when the call fails for any other reason.
GetObject(key, getOk) ==
    IF getOk /\ key \in DOMAIN store
    THEN [err |-> FALSE, Body |-> store[key]]
    ELSE [err |-> TRUE, Body |-> NoMessage]

\* Mutant: a stored object that does not decode is answered like a missing one.
getJobResponseDecodeNotFound(method, jobID, getOk) ==
    IF method # "GET"
    THEN [status |-> StatusMethodNotAllowed, body |-> PlainText("method not allowed")]
    ELSE IF jobID = EmptyString
    THEN [status |-> StatusBadRequest, body |-> PlainText("job id required")]
    ELSE LET result == GetObject(Key(jobID), getOk) IN
         IF result.err \/ UnmarshalJobResult(result.Body).err
         THEN [status |-> StatusNotFound, body |-> PlainText("job not found")]
         ELSE LET jobResult == UnmarshalJobResult(result.Body) IN
              [status |-> StatusOK,
               body |-> MarshalJobResult(
                   [ID |-> jobResult.ID, Text |-> jobResult.Text,
                    Output |-> jobResult.Output,
                    ProcessedAt |-> jobResult.ProcessedAt])]

\* The status and body getJob answers with.
getJobResponse(method, jobID, getOk) ==
    IF method # "GET"
    THEN [status |-> StatusMethodNotAllowed, body |-> PlainText("method not allowed")]
    ELSE IF jobID = EmptyString
    THEN [status |-> StatusBadRequest, body |-> PlainText("job id required")]
    ELSE LET result == GetObject(Key(jobID), getOk) IN
         IF result.err
         THEN [status |-> StatusNotFound, body |-> PlainText("job not found")]
         ELSE LET jobResult == UnmarshalJobResult(result.Body) IN
              IF jobResult.err
              THEN [status |-> StatusInternalServerError,
                    body |-> PlainText("failed to decode job")]
              ELSE [status |-> StatusOK,
                    body |-> MarshalJobResult(
                        [ID |-> jobResult.ID, Text |-> jobResult.Text,
                         Output |-> jobResult.Output,
                         ProcessedAt |-> jobResult.ProcessedAt])]

\* Mutant: a result that was returned is removed from the bucket.
getJobConsumes(method, jobID, getOk) ==
    /\ lastResp' =
         [op |-> "getJob", method |-> method,
          req |-> IF method # "GET" THEN NoMessage ELSE PlainText(jobID),
          status |-> getJobResponse(method, jobID, getOk).status,
          body |-> getJobResponse(method, jobID, getOk).body]
    /\ store' = IF getJobResponse(method, jobID, getOk).status = StatusOK
                THEN [k \in DOMAIN store \ {Key(jobID)} |-> store[k]]
                ELSE store
    /\ UNCHANGED <<env, workerEnabled, queue, posts, wpc, wmsg,
                   processed, rejected, deleted>>

\* getJob as one step: the request, and the response it is answered with.
getJob(method, jobID, getOk) ==
    /\ lastResp' =
         [op |-> "getJob", method |-> method,
          req |-> IF method # "GET" THEN NoMessage ELSE PlainText(jobID),
          status |-> getJobResponse(method, jobID, getOk).status,
          body |-> getJobResponse(method, jobID, getOk).body]
    /\ UNCHANGED <<env, workerEnabled, queue, store, posts, wpc, wmsg,
                   processed, rejected, deleted>>

(***************************************************************************)
(* workerLoop                                                              *)
(***************************************************************************)
\* Mutant: an error of ReceiveMessage ends the loop.
workerReceiveErrorReturns ==
    /\ wpc = "receive"
    /\ wpc' = "returned"
    /\ UNCHANGED <<env, workerEnabled, queue, store, posts, lastResp, wmsg,
                   processed, rejected, deleted>>

\* ReceiveMessage returns an error: log, sleep, continue.
workerReceiveError ==
    /\ wpc = "receive"
    /\ wpc' = "sleep"
    /\ UNCHANGED <<env, workerEnabled, queue, store, posts, lastResp, wmsg,
                   processed, rejected, deleted>>

\* time.Sleep(5 * time.Second) is over.
workerWake ==
    /\ wpc = "sleep"
    /\ wpc' = "receive"
    /\ UNCHANGED <<env, workerEnabled, queue, store, posts, lastResp, wmsg,
                   processed, rejected, deleted>>

\* ReceiveMessage returns no message (the long poll ran out): the range over
\* result.Messages is empty and the loop receives again.
workerReceiveNone ==
    /\ wpc = "receive"
    /\ wpc' = "receive"
    /\ UNCHANGED <<env, workerEnabled, queue, store, posts, lastResp, wmsg,
                   processed, rejected, deleted>>

\* ReceiveMessage returns one message of the queue (MaxNumberOfMessages: 1);
\* the message stays in the queue until it is deleted.  Redelivered is
\* history: whether processMessage had already returned nil for this body.
workerReceive(body) ==
    /\ wpc = "receive"
    /\ BagIn(body, queue)
    /\ wpc' = "process"
    /\ wmsg' = [Body |-> body, Redelivered |-> body \in processed]
    /\ UNCHANGED <<env, workerEnabled, queue, store, posts, lastResp,
                   processed, rejected, deleted>>

\* s3Client.PutObject: the bucket after the call.  A call that returns an
\* error has written nothing.
PutObject(key, body, putOk) ==
    IF putOk
    THEN [k \in DOMAIN store \cup {key} |-> IF k = key THEN body ELSE store[k]]
    ELSE store

\* Mutant: the error of PutObject is swallowed.
processMessageSwallowsPutError(message, t, putOk, err) ==
    LET jobMsg == UnmarshalJobMessage(message.Body) IN
    IF jobMsg.err
    THEN /\ err = "failed to unmarshal message"
         /\ store' = store
    ELSE /\ store' = PutObject(Key(jobMsg.ID),
                               MarshalJobResult([ID |-> jobMsg.ID, Text |-> jobMsg.Text,
                                                 Output |-> ToUpper(jobMsg.Text),
                                                 ProcessedAt |-> t]), putOk)
         /\ err = "nil"

\* Mutant: every processing writes an object of its own, keyed by id and time.
processMessageKeyByTime(message, t, putOk, err) ==
    LET jobMsg == UnmarshalJobMessage(message.Body) IN
    IF jobMsg.err
    THEN /\ err = "failed to unmarshal message"
         /\ store' = store
    ELSE /\ store' = PutObject(<<"jobs/", jobMsg.ID, t, ".json">>,
                               MarshalJobResult([ID |-> jobMsg.ID, Text |-> jobMsg.Text,
                                                 Output |-> ToUpper(jobMsg.Text),
                                                 ProcessedAt |-> t]), putOk)
         /\ err = IF putOk THEN "nil" ELSE "failed to put object"

\* Mutant: a later processing appends its output to the output already
\* stored under the key.
processMessageAccumulates(message, t, putOk, err) ==
    LET jobMsg == UnmarshalJobMessage(message.Body) IN
    IF jobMsg.err
    THEN /\ err = "failed to unmarshal message"
         /\ store' = store
    ELSE LET key == Key(jobMsg.ID)
             output == IF key \in DOMAIN store
                       THEN store[key].fields.output \o ToUpper(jobMsg.Text)
                       ELSE ToUpper(jobMsg.Text)
         IN /\ store' = PutObject(key,
                                  MarshalJobResult([ID |-> jobMsg.ID, Text |-> jobMsg.Text,
                                                    Output |-> output,
                                                    ProcessedAt |-> t]), putOk)
            /\ err = IF putOk THEN "nil" ELSE "failed to put object"

\* processMessage(message): the error it returns, and its effect on the bucket.
processMessage(message, t, putOk, err) ==
    LET jobMsg == UnmarshalJobMessage(message.Body) IN
    IF jobMsg.err
    THEN /\ err = "failed to unmarshal message"
         /\ store' = store
    ELSE LET output == ToUpper(jobMsg.Text)
             jobResult == [ID |-> jobMsg.ID, Text |-> jobMsg.Text,
                           Output |-> output, ProcessedAt |-> t]
             resultBody == MarshalJobResult(jobResult)
             key == Key(jobMsg.ID)
         IN /\ store' = PutObject(key, resultBody, putOk)
            /\ err = IF putOk THEN "nil" ELSE "failed to put object"

Errors == {"nil", "failed to unmarshal message", "failed to put object"}

\* Mutant: the error of processMessage is logged and the loop goes on to
\* DeleteMessage all the same.
workerProcessNoErrCheck ==
    /\ wpc = "process"
    /\ \E t \in Times, putOk \in BOOLEAN, err \in Errors :
         /\ processMessage(wmsg, t, putOk, err)
         /\ wpc' = "delete"
         /\ wmsg' = wmsg
         /\ processed' = IF err = "nil" THEN processed \cup {wmsg.Body} ELSE processed
         /\ rejected' = IF err = "failed to unmarshal message"
                        THEN rejected \cup {wmsg.Body} ELSE rejected
    /\ UNCHANGED <<env, workerEnabled, queue, posts, lastResp, deleted>>

\* Mutant: processMessage is started as a goroutine of its own, and the loop
\* goes back to ReceiveMessage while the message is still being handled.
workerProcessAsync ==
    /\ wpc = "process"
    /\ \E t \in Times, putOk \in BOOLEAN, err \in Errors :
         /\ processMessage(wmsg, t, putOk, err)
         /\ wmsg' = wmsg
         /\ wpc' = "receive"
         /\ processed' = IF err = "nil" THEN processed \cup {wmsg.Body} ELSE processed
         /\ rejected' = IF err = "failed to unmarshal message"
                        THEN rejected \cup {wmsg.Body} ELSE rejected
    /\ UNCHANGED <<env, workerEnabled, queue, posts, lastResp, deleted>>

\* The call of processMessage in the range loop, and the test of its error.
workerProcess ==
    /\ wpc = "process"
    /\ \E t \in Times, putOk \in BOOLEAN, err \in Errors :
         /\ processMessage(wmsg, t, putOk, err)
         /\ wmsg' = wmsg
         /\ IF err # "nil"
            THEN /\ wpc' = "failed"
                 /\ processed' = processed
                 /\ rejected' = IF err = "failed to unmarshal message"
                                THEN rejected \cup {wmsg.Body} ELSE rejected
            ELSE /\ wpc' = "delete"
                 /\ processed' = processed \cup {wmsg.Body}
                 /\ rejected' = rejected
    /\ UNCHANGED <<env, workerEnabled, queue, posts, lastResp, deleted>>

\* Mutant: the continue is missing, and the message whose processing failed
\* is deleted.
workerSkipDeletes ==
    /\ wpc = "failed"
    /\ wpc' = "receive"
    /\ wmsg' = NoMessage
    /\ queue' = queue (-) SetToBag({wmsg.Body})
    /\ deleted' = deleted (+) SetToBag({wmsg.Body})
    /\ UNCHANGED <<env, workerEnabled, store, posts, lastResp, processed, rejected>>

\* processMessage returned an error: it is logged, and continue takes the
\* loop to the next message, of which there is none, and so to the next
\* ReceiveMessage.
workerSkip ==
    /\ wpc = "failed"
    /\ wpc' = "receive"
    /\ wmsg' = NoMessage
    /\ UNCHANGED <<env, workerEnabled, queue, store, posts, lastResp,
                   processed, rejected, deleted>>

\* Mutant: DeleteMessage is called with a receipt handle that is not the
\* message's, and removes nothing.
workerDeleteWrongHandle(deleteOk) ==
    /\ wpc = "delete"
    /\ wpc' = "receive"
    /\ wmsg' = NoMessage
    /\ UNCHANGED <<env, workerEnabled, queue, store, posts, lastResp,
                   processed, rejected, deleted>>

\* Mutant: after a failed DeleteMessage the message is processed again in
\* the same iteration.
workerDeleteReprocesses(deleteOk) ==
    /\ wpc = "delete"
    /\ IF deleteOk
       THEN /\ queue' = queue (-) SetToBag({wmsg.Body})
            /\ deleted' = deleted (+) SetToBag({wmsg.Body})
            /\ wpc' = "receive"
            /\ wmsg' = NoMessage
       ELSE /\ queue' = queue
            /\ deleted' = deleted
            /\ wpc' = "process"
            /\ wmsg' = wmsg
    /\ UNCHANGED <<env, workerEnabled, store, posts, lastResp, processed, rejected>>

\* sqsClient.DeleteMessage with the message's receipt handle; a failure is
\* logged and nothing else.
workerDelete(deleteOk) ==
    /\ wpc = "delete"
    /\ IF deleteOk
       THEN /\ queue' = queue (-) SetToBag({wmsg.Body})
            /\ deleted' = deleted (+) SetToBag({wmsg.Body})
       ELSE /\ queue' = queue
            /\ deleted' = deleted
    /\ wpc' = "receive"
    /\ wmsg' = NoMessage
    /\ UNCHANGED <<env, workerEnabled, store, posts, lastResp, processed, rejected>>

workerLoop ==
    \/ workerReceiveError
    \/ workerWake
    \/ workerReceiveNone
    \/ \E body \in BagToSet(queue) : workerReceive(body)
    \/ workerProcess
    \/ workerSkip
    \/ \E deleteOk \in BOOLEAN : workerDelete(deleteOk)

getJobRequests ==
    \/ getJob("POST", EmptyString, TRUE)
    \/ \E jobID \in PathIDs, getOk \in BOOLEAN : getJob("GET", jobID, getOk)

(***************************************************************************)
(* Other producers of the queue: a message whose body is not a JobMessage. *)
(***************************************************************************)
ForeignBodies == {InvalidJSON, MismatchJSON}

ForeignInQueue ==
    BagCardinality([b \in BagToSet(queue) \cap ForeignBodies |-> queue[b]])

foreignSend(body) ==
    /\ ForeignInQueue < MaxForeign
    /\ queue' = queue (+) SetToBag({body})
    /\ UNCHANGED <<env, workerEnabled, store, posts, lastResp, wpc, wmsg,
                   processed, rejected, deleted>>

(***************************************************************************)
(* Other writers of the bucket: an object under the key of job 1 whose     *)
(* body is not a JobResult.                                                *)
(***************************************************************************)
foreignPut(body) ==
    /\ store' = PutObject(Key(<<1>>), body, TRUE)
    /\ UNCHANGED <<env, workerEnabled, queue, posts, lastResp, wpc, wmsg,
                   processed, rejected, deleted>>

(***************************************************************************)
(* Specifications.                                                         *)
(*   Spec      job submission and the worker                               *)
(*   SpecGet   accepted submissions, the worker, and getJob                *)
(*   SpecOpen  submissions of one text, the worker, and foreign messages   *)
(*   SpecBucket  submissions of one text, the worker, getJob, and foreign *)
(*             objects in the bucket                                       *)
(*   SpecHTTP  every handler, with submissions of one text, and the worker *)
(*   LiveSpec  submissions of one text and the worker, with the worker     *)
(*             goroutine always scheduled again and each of its calls      *)
(*             succeeding eventually                                       *)
(*   LiveSpecRedelivery  the same, but DeleteMessage may fail every time  *)
(***************************************************************************)
Next ==
    \/ createJob
    \/ workerLoop

Spec == Init /\ [][Next]_vars

NextGet ==
    \/ createJobAccepted
    \/ workerLoop
    \/ getJobRequests

SpecGet == Init /\ [][NextGet]_vars

\* The submissions of the text "aB".
createJobOneText ==
    \/ createJobBegin(ObjectJSON([text |-> <<"a", "B">>]))
    \/ \E r \in 1..Len(posts), sendOk \in BOOLEAN : createJobSend(r, sendOk)
    \/ \E r \in 1..Len(posts) : createJobRespond(r)

NextOpen ==
    \/ createJobOneText
    \/ workerLoop
    \/ \E body \in ForeignBodies : foreignSend(body)

SpecOpen == Init /\ [][NextOpen]_vars

\* Submissions of one text, the worker, getJob, and foreign objects in the
\* bucket.
NextBucket ==
    \/ createJobOneText
    \/ workerLoop
    \/ getJobRequests
    \/ \E body \in ForeignBodies : foreignPut(body)

SpecBucket == Init /\ [][NextBucket]_vars

\* Every handler of the front door, with submissions of one text, and the
\* worker.
NextHTTP ==
    \/ createJobOneText
    \/ createJobReject("GET", InvalidJSON)
    \/ createJobReject("POST", InvalidJSON)
    \/ getJobRequests
    \/ \E method \in {"GET", "POST"} : healthz(method)
    \/ \E method \in {"GET", "POST"} : readyz(method)
    \/ workerLoop

SpecHTTP == Init /\ [][NextHTTP]_vars

NextLive ==
    \/ createJobOneText
    \/ workerLoop

\* ReceiveMessage returns the message of job n.
workerReceiveJob(n) ==
    \E body \in BagToSet(queue) :
        UnmarshalJobMessage(body).ID = <<n>> /\ workerReceive(body)

Fairness ==
    /\ WF_vars(workerLoop)
    /\ \A n \in 1..MaxPosts : SF_vars(workerReceiveJob(n))
    /\ SF_vars(workerProcess /\ wpc' = "delete")
    /\ SF_vars(workerDelete(TRUE))

LiveSpec == Init /\ [][NextLive]_vars /\ Fairness

\* processMessage returns nil for the message of job n.
workerProcessJob(n) ==
    /\ workerProcess
    /\ wpc' = "delete"
    /\ UnmarshalJobMessage(wmsg.Body).ID = <<n>>

\* The worker goroutine is always scheduled again, each job's message is
\* received again and again while it is in the queue, and processMessage
\* succeeds eventually for each job; DeleteMessage may fail every time.
FairnessRedelivery ==
    /\ WF_vars(workerLoop)
    /\ \A n \in 1..MaxPosts : SF_vars(workerReceiveJob(n))
    /\ \A n \in 1..MaxPosts : SF_vars(workerProcessJob(n))

LiveSpecRedelivery == Init /\ [][NextLive]_vars /\ FairnessRedelivery

(***************************************************************************)
(* Properties.                                                             *)
(***************************************************************************)
\* The job id a message body carries.
IDOf(body) == UnmarshalJobMessage(body).ID

\* The text a message body carries.
TextOf(body) == UnmarshalJobMessage(body).Text

\* Every message that was ever in the queue: still there, or deleted.
Messages == queue (+) deleted

\* How many messages carry the id.
MessagesWithID(id) ==
    BagCardinality([b \in {x \in BagToSet(Messages) : IDOf(x) = id} |-> Messages[b]])

\* The bucket holds a JobResult for the id of the message body.
HasResult(body) ==
    /\ Key(IDOf(body)) \in DOMAIN store
    /\ store[Key(IDOf(body))].kind = "object"
    /\ store[Key(IDOf(body))].fields.id = IDOf(body)

\* C1: the worker deletes a message only after the store write of the
\* JobResult for that message has succeeded in the same iteration: the
\* worker is about to call DeleteMessage only for a message whose result is
\* stored, and every message it has deleted has its result in the bucket.
C1_DeleteOnlyAfterStore ==
    /\ wpc = "delete" => (wmsg.Body \in processed /\ HasResult(wmsg.Body))
    /\ \A b \in BagToSet(deleted) : b \in processed /\ HasResult(b)

C1_Witness ==
    /\ \E b \in BagToSet(deleted) : HasResult(b) /\ ~BagIn(b, queue)
    /\ BagToSet(queue) # {}

\* The createJob requests whose SendMessage succeeded.
Enqueued == {r \in 1..Len(posts) :
                posts[r].pc = "respond" \/ posts[r].status = StatusCreated}

\* C2: a POST /jobs whose body decodes and whose enqueue succeeds answers
\* 201 with an id that no other POST /jobs generated, and adds exactly one
\* message to the queue, which carries that id and the request's text.
C2_CreateJobEnqueuesOnce ==
    /\ \A r \in 1..Len(posts) :
         LET p == posts[r] IN
         /\ (p.pc = "done" /\ MessagesWithID(p.jobID) > 0) => p.status = StatusCreated
         /\ p.status = StatusCreated =>
              /\ p.body = ObjectJSON([id |-> p.jobID])
              /\ p.jobID # EmptyString
              /\ \A q \in 1..Len(posts) : q # r => posts[q].jobID # p.jobID
              /\ MessagesWithID(p.jobID) = 1
              /\ CopiesIn(ObjectJSON([id |-> p.jobID, text |-> p.req.Text]), Messages) = 1
    /\ BagCardinality(Messages) = Cardinality(Enqueued)

C2_Witness ==
    /\ Len(posts) = 2
    /\ posts[1].status = StatusCreated /\ posts[2].status = StatusCreated
    /\ posts[1].req.Text # posts[2].req.Text
    /\ BagCardinality(queue) = 1 /\ BagCardinality(deleted) = 1

\* C3: the bucket holds a JobResult for id X exactly when the worker has
\* received a message with id X from the queue and processMessage returned
\* nil for it.
C3_ResultIffProcessed ==
    /\ \A b \in processed : BagIn(b, Messages) /\ HasResult(b)
    /\ \A k \in DOMAIN store :
         /\ ~UnmarshalJobResult(store[k]).err
         /\ \E b \in processed : k = Key(IDOf(b)) /\ HasResult(b)

C3_Witness ==
    /\ \E b \in processed : HasResult(b)
    /\ \E b \in BagToSet(queue) : b \notin processed /\ Key(IDOf(b)) \notin DOMAIN store

\* The uppercase form of a text over the characters the clients send.
ExpectedUpper(s) == [i \in 1..Len(s) |-> IF s[i] = "a" THEN "A" ELSE s[i]]

\* C6: processing a message again leaves exactly one object for its id, and
\* the JobResult written agrees with the one it replaces in id, text and
\* output; no other object changes.
C6_RedeliveryIdempotent ==
    [][(wpc = "process" /\ wpc' = "delete" /\ wmsg.Redelivered) =>
         LET k == Key(IDOf(wmsg.Body)) IN
         /\ k \in DOMAIN store
         /\ DOMAIN store' = DOMAIN store
         /\ store'[k].fields.id = store[k].fields.id
         /\ store'[k].fields.text = store[k].fields.text
         /\ store'[k].fields.output = store[k].fields.output
         /\ \A k2 \in DOMAIN store \ {k} : store'[k2] = store[k2]]_vars

C6_Witness ==
    /\ wpc = "delete"
    /\ wmsg.Redelivered
    /\ Cardinality(DOMAIN store) = 1
    /\ HasResult(wmsg.Body)

\* C7: for every message the worker has processed, the stored JobResult
\* has the message's text as text and its uppercase form as output; the
\* empty text is processed too, with the empty output.
C7_OutputIsUpper ==
    \A b \in processed :
        /\ HasResult(b)
        /\ store[Key(IDOf(b))].fields.text = TextOf(b)
        /\ store[Key(IDOf(b))].fields.output = ExpectedUpper(TextOf(b))
        /\ TextOf(b) = EmptyString => store[Key(IDOf(b))].fields.output = EmptyString

C7_Witness ==
    /\ \E b \in processed :
         /\ TextOf(b) = EmptyString
         /\ store[Key(IDOf(b))].fields.output = EmptyString
    /\ \E b \in processed :
         /\ TextOf(b) = <<"a", "B">>
         /\ store[Key(IDOf(b))].fields.output = <<"A", "B">>

\* C9: a POST /jobs whose body does not decode is answered 400 with no id,
\* and the step leaves the queue, the bucket and the requests in flight as
\* they were.
C9_BadRequestNoEffect ==
    [][(/\ lastResp' # lastResp
        /\ lastResp'.op = "createJob"
        /\ lastResp'.method = "POST"
        /\ lastResp'.req.kind \in {"invalid", "mismatch"}) =>
         /\ lastResp'.status = StatusBadRequest
         /\ lastResp'.body = PlainText("invalid JSON")
         /\ queue' = queue
         /\ store' = store
         /\ posts' = posts]_vars

C9_Witness ==
    /\ lastResp.op = "createJob"
    /\ lastResp.method = "POST"
    /\ lastResp.req = InvalidJSON
    /\ lastResp.status = StatusBadRequest
    /\ BagToSet(queue) # {}
    /\ DOMAIN store # {}

\* The answer to GET /jobs/{id} is the JobResult stored for the message body.
GetReturnsResultOf(body) ==
    LET resp == getJobResponse("GET", IDOf(body), TRUE) IN
    /\ resp.status = StatusOK
    /\ resp.body.kind = "object"
    /\ resp.body.fields.id = IDOf(body)
    /\ resp.body.fields.text = TextOf(body)
    /\ resp.body.fields.output = ExpectedUpper(TextOf(body))

\* The message createJob request r enqueues.
MessageOf(r) == ObjectJSON([id |-> posts[r].jobID, text |-> posts[r].req.Text])

\* Job r is done: its result is stored, GET returns it, its message is gone.
JobDone(r) ==
    /\ HasResult(MessageOf(r))
    /\ GetReturnsResultOf(MessageOf(r))
    /\ ~BagIn(MessageOf(r), queue)

\* C4: with the worker enabled, every job that POST /jobs answered with 201
\* is eventually processed: its JobResult (id, text, uppercase output) is
\* stored, GET /jobs/{id} returns 200 with it, and its message is deleted.
C4_AcceptedEventuallyProcessed ==
    \A r \in 1..MaxPosts :
        (workerEnabled /\ Len(posts) >= r /\ posts[r].status = StatusCreated)
            ~> (Len(posts) >= r /\ JobDone(r))

C4_Witness ==
    /\ workerEnabled
    /\ Len(posts) = 2
    /\ posts[1].status = StatusCreated /\ posts[2].status = StatusCreated
    /\ JobDone(1) /\ JobDone(2)
    /\ BagIn(MessageOf(1), deleted) /\ BagIn(MessageOf(2), deleted)

\* The ids POST /jobs has returned.
ReturnedIDs == {posts[r].jobID : r \in {q \in 1..Len(posts) : posts[q].status = StatusCreated}}

\* The ids POST /jobs has enqueued a message for.
EnqueuedIDs == {posts[r].jobID : r \in Enqueued}

\* The last answer is one of GET /jobs/{id}.
AnsweredGet == lastResp.op = "getJob" /\ lastResp.method = "GET"

\* C5 as claimed: GET /jobs/{id} answers 404 for every id that no
\* POST /jobs has returned.
C5_NeverReturnedIsNotFound ==
    (AnsweredGet /\ lastResp.req.text \notin ReturnedIDs)
        => lastResp.status = StatusNotFound

\* C5 with the empty id alone set aside: fails for the id of a job that is
\* enqueued and processed before its 201 is written.
C5_NonEmptyNeverReturnedIsNotFound ==
    (AnsweredGet /\ lastResp.req.text # EmptyString
                 /\ lastResp.req.text \notin ReturnedIDs)
        => lastResp.status = StatusNotFound

\* C5, amended: GET /jobs/{id} answers 404 for every id that is not empty
\* and for which no POST /jobs has enqueued a message.
C5_NeverEnqueuedIsNotFound ==
    (AnsweredGet /\ lastResp.req.text # EmptyString
                 /\ lastResp.req.text \notin EnqueuedIDs)
        => lastResp.status = StatusNotFound

C5_Witness ==
    /\ AnsweredGet
    /\ lastResp.req.text = <<1>>
    /\ lastResp.status = StatusNotFound
    /\ Len(posts) = 2
    /\ posts[1].jobID = <<1>>
    /\ posts[1].status = StatusInternalServerError
    /\ DOMAIN store # {}

\* C8: while an object is stored under jobs/{id}.json and the store get
\* succeeds, GET /jobs/{id} answers 200 with the id, text and output of the
\* stored JobResult.
C8_GetReturnsStored ==
    /\ \A id \in (PathIDs \cup UsedIDs) \ {EmptyString} :
         Key(id) \in DOMAIN store =>
            LET R == store[Key(id)]
                resp == getJobResponse("GET", id, TRUE)
            IN /\ resp.status = StatusOK
               /\ resp.body.kind = "object"
               /\ resp.body.fields.id = R.fields.id
               /\ resp.body.fields.text = R.fields.text
               /\ resp.body.fields.output = R.fields.output
    /\ (AnsweredGet /\ lastResp.status = StatusOK) =>
         /\ Key(lastResp.req.text) \in DOMAIN store
         /\ lastResp.body.fields.id = store[Key(lastResp.req.text)].fields.id
         /\ lastResp.body.fields.text = store[Key(lastResp.req.text)].fields.text
         /\ lastResp.body.fields.output = store[Key(lastResp.req.text)].fields.output

C8_Witness ==
    /\ AnsweredGet
    /\ lastResp.status = StatusOK
    /\ lastResp.req.text = <<1>>
    /\ lastResp.body.fields.id = <<1>>
    /\ lastResp.body.fields.text = <<"a", "B">>
    /\ lastResp.body.fields.output = <<"A", "B">>
    /\ lastResp.body.fields.processed_at = store[Key(<<1>>)].fields.processed_at

\* A message body that does not decode as a JobMessage.
Undecodable(body) == body.kind \in {"invalid", "mismatch"}

\* C10: when the worker has a message whose body does not decode, it goes
\* back to receiving without writing to the bucket or deleting anything,
\* and the message is still in the queue; no step removes such a message
\* from the queue, and none is ever deleted or counted as processed.
C10_UndecodableStays ==
    [][/\ (wpc = "process" /\ wpc' # wpc /\ Undecodable(wmsg.Body)) =>
            /\ wpc' = "failed"
            /\ wmsg' = wmsg
            /\ store' = store
            /\ queue' = queue
            /\ deleted' = deleted
       /\ (wpc = "failed" /\ wpc' # wpc /\ Undecodable(wmsg.Body)) =>
            /\ wpc' = "receive"
            /\ store' = store
            /\ queue' = queue
            /\ deleted' = deleted
            /\ BagIn(wmsg.Body, queue')
       /\ \A b \in ForeignBodies :
            /\ CopiesIn(b, queue') >= CopiesIn(b, queue)
            /\ ~BagIn(b, deleted')
            /\ b \notin processed']_vars

C10_Witness ==
    /\ wpc = "process"
    /\ wmsg.Body \in rejected
    /\ Undecodable(wmsg.Body)
    /\ BagIn(wmsg.Body, queue)
    /\ DOMAIN store # {}

\* The submissions whose SendMessage failed.
SendFailed == {r \in 1..Len(posts) : posts[r].status = StatusInternalServerError}

\* C11: a POST /jobs whose enqueue call failed is answered 500 with a plain
\* error text and no id; no message with the id generated for it is in the
\* queue or was ever in it, no result is stored under that id, and the
\* request is finished: only a finished request that enqueued nothing is
\* answered 500, and the step that fails leaves the queue as it was.
C11_SendFailureNoEffect ==
    [][/\ \A r \in 1..Len(posts') :
            /\ posts'[r].status = StatusInternalServerError =>
                 /\ posts'[r].pc = "done"
                 /\ posts'[r].body = PlainText("failed to send message")
                 /\ posts'[r].body # ObjectJSON([id |-> posts'[r].jobID])
                 /\ \A b \in BagToSet(queue' (+) deleted') :
                        ~Undecodable(b) => IDOf(b) # posts'[r].jobID
                 /\ Key(posts'[r].jobID) \notin DOMAIN store'
                 /\ (wmsg' # NoMessage /\ ~Undecodable(wmsg'.Body)) =>
                        IDOf(wmsg'.Body) # posts'[r].jobID
            /\ (posts'[r].pc = "done" /\ posts'[r].status # StatusCreated) =>
                 posts'[r].status = StatusInternalServerError
       /\ \A r \in 1..Len(posts) :
            (posts[r].pc = "send" /\ posts'[r].status = StatusInternalServerError) =>
                 /\ queue' = queue
                 /\ store' = store
       /\ \A r \in SendFailed : posts'[r] = posts[r]
      ]_vars

C11_Witness ==
    /\ \E r \in SendFailed : \E q \in 1..Len(posts) :
          /\ q > r
          /\ posts[q].status = StatusCreated
          /\ Key(posts[q].jobID) \in DOMAIN store
          /\ BagIn(MessageOf(q), deleted)
    /\ wpc = "receive"


\* C12: GET /jobs/{id} with an empty id is answered 400 whatever the bucket
\* holds and whether or not it can be read; with a non-empty id whose object
\* cannot be fetched, because it is missing or because GetObject fails for
\* another reason, 404; with a fetched object that does not decode as a
\* JobResult, 500; and otherwise 200 with the stored JobResult.
C12_GetJobStatuses ==
    /\ \A jobID \in PathIDs \cup UsedIDs, getOk \in BOOLEAN :
         LET resp == getJobResponse("GET", jobID, getOk)
             key == Key(jobID)
         IN IF jobID = EmptyString
            THEN resp = [status |-> StatusBadRequest,
                         body |-> PlainText("job id required")]
            ELSE IF ~getOk \/ key \notin DOMAIN store
            THEN resp.status = StatusNotFound /\ resp.body.kind = "text"
            ELSE IF Undecodable(store[key])
            THEN resp.status = StatusInternalServerError /\ resp.body.kind = "text"
            ELSE /\ resp.status = StatusOK
                 /\ resp.body = store[key]
                 /\ DOMAIN resp.body.fields = {"id", "text", "output", "processed_at"}
    /\ (lastResp.op = "getJob" /\ lastResp.method = "GET") =>
         /\ lastResp.status \in {StatusBadRequest, StatusNotFound,
                                 StatusInternalServerError, StatusOK}
         /\ lastResp.status = StatusBadRequest <=> lastResp.req = PlainText(EmptyString)
         /\ lastResp.status \in {StatusInternalServerError, StatusOK} =>
              \E jobID \in PathIDs :
                  lastResp.req = PlainText(jobID) /\ Key(jobID) \in DOMAIN store
         /\ lastResp.status = StatusOK <=> lastResp.body.kind = "object"

C12_Witness ==
    /\ lastResp.op = "getJob"
    /\ lastResp.req = PlainText(<<1>>)
    /\ lastResp.status = StatusInternalServerError
    /\ Undecodable(store[Key(<<1>>)])
    /\ getJobResponse("GET", <<2>>, TRUE).status = StatusOK
    /\ getJobResponse("GET", <<2>>, FALSE).status = StatusNotFound


\* C13 as stated: once an object is stored, no step changes its content.
\* A second processing of the same message, after a delete that failed,
\* writes the object again with the time of the second processing.
C13_ResultImmutable ==
    [][\A k \in DOMAIN store : k \in DOMAIN store' /\ store'[k] = store[k]]_vars

\* C13: once the object of a job is stored, no step removes it or changes
\* its id, text or output; its content changes only when the worker
\* processes the job's message again, and then only in processed_at.
C13_ResultFieldsStable ==
    [][\A k \in DOMAIN store :
         /\ k \in DOMAIN store'
         /\ store'[k].kind = store[k].kind
         /\ store'[k].fields.id = store[k].fields.id
         /\ store'[k].fields.text = store[k].fields.text
         /\ store'[k].fields.output = store[k].fields.output
         /\ store'[k] # store[k] =>
              /\ wpc = "process" /\ wpc' = "delete"
              /\ wmsg.Redelivered
              /\ k = Key(IDOf(wmsg.Body))
              /\ store'[k].fields.processed_at # store[k].fields.processed_at
      ]_vars

\* The object of job 1 carries the time of a second processing, later than
\* the first, beside the object of another job.
C13_Witness ==
    /\ wpc = "delete"
    /\ wmsg.Redelivered
    /\ IDOf(wmsg.Body) = <<1>>
    /\ store[Key(<<1>>)].fields.processed_at = 2
    /\ Key(<<2>>) \in DOMAIN store
    /\ store[Key(<<2>>)].fields.processed_at = 1


\* C14: the worker loop runs exactly when WORKER_ENABLED is "true" at
\* startup.  With any other value the worker never takes a position in its
\* loop and holds no message, every message enqueued is still in the queue,
\* none was deleted, processed or rejected, and the bucket is empty,
\* whatever requests were served.
C14_WorkerOnlyWhenTrue ==
    /\ workerEnabled <=> env = "true"
    /\ wpc # "off" <=> env = "true"
    /\ env # "true" =>
         /\ wmsg = NoMessage
         /\ deleted = EmptyBag
         /\ processed = {}
         /\ rejected = {}
         /\ store = << >>
         /\ BagCardinality(queue) = Cardinality(Enqueued)
         /\ \A r \in Enqueued : BagIn(MessageOf(r), queue)

C14_Witness ==
    /\ env = "TRUE"
    /\ wpc = "off"
    /\ Cardinality(Enqueued) = 2
    /\ \A r \in 1..Len(posts) : posts[r].status = StatusCreated
    /\ lastResp.op = "createJob"
    /\ lastResp.status = StatusBadRequest


\* The worker holds a message that decodes as a JobMessage.
HoldsJob == wmsg # NoMessage /\ ~Undecodable(wmsg.Body)

\* C15: a step of processMessage on a job's message either writes the job's
\* result and leads to the delete call, or, when the store write fails,
\* leaves the bucket and the queue as they were, counts nothing as processed
\* and leads to the skip; after the skip the worker is at its next receive,
\* nothing was deleted or written, and the message is still in the queue.
C15_PutFailureKeepsMessage ==
    [][/\ (wpc = "process" /\ wpc' # wpc /\ HoldsJob) =>
            \/ /\ wpc' = "delete"
               /\ Key(IDOf(wmsg.Body)) \in DOMAIN store'
               /\ store'[Key(IDOf(wmsg.Body))].fields.id = IDOf(wmsg.Body)
               /\ wmsg.Body \in processed'
            \/ /\ wpc' = "failed"
               /\ wmsg' = wmsg
               /\ store' = store
               /\ queue' = queue
               /\ deleted' = deleted
               /\ processed' = processed
       /\ (wpc = "failed" /\ wpc' # wpc /\ HoldsJob) =>
            /\ wpc' = "receive"
            /\ wmsg' = NoMessage
            /\ store' = store
            /\ queue' = queue
            /\ deleted' = deleted
            /\ processed' = processed
            /\ BagIn(wmsg.Body, queue')
       /\ (wpc' = "failed" /\ wmsg' # NoMessage) => BagIn(wmsg'.Body, queue')
      ]_vars

\* The store write for job 2 has just failed: its message is in the queue,
\* it has no object, and the object of job 1 is as it was written.
C15_Witness ==
    /\ wpc = "failed"
    /\ HoldsJob
    /\ IDOf(wmsg.Body) = <<2>>
    /\ BagIn(wmsg.Body, queue)
    /\ wmsg.Body \notin processed
    /\ DOMAIN store = {Key(<<1>>)}


\* The message of job n was enqueued; it was deleted.
JobEnqueued(n) == \E b \in BagToSet(Messages) : IDOf(b) = <<n>>
JobDeleted(n) == \E b \in BagToSet(deleted) : IDOf(b) = <<n>>

\* The worker has just processed the message of job n once more.
JobReprocessed(n) ==
    /\ wpc = "delete"
    /\ wmsg.Redelivered
    /\ IDOf(wmsg.Body) = <<n>>

\* C16: a DeleteMessage that fails after the result was stored changes
\* neither the queue nor the bucket and leads straight to the next receive,
\* with no second delete and no second processing in that iteration; the
\* message is still in the queue, its result is stored, and it can be
\* received again.  A message leaves the queue only by a delete that
\* succeeds.  With the worker enabled and scheduled and its receive and
\* store calls succeeding eventually, an enqueued job is, from any moment
\* on, either deleted or processed once more: as long as no delete
\* succeeds for it, it is processed again and again without end.
C16_FailedDeleteRedelivers ==
    /\ [][/\ (wpc = "delete" /\ wpc' # wpc /\ deleted' = deleted) =>
               /\ wpc' = "receive"
               /\ wmsg' = NoMessage
               /\ queue' = queue
               /\ store' = store
               /\ processed' = processed
               /\ BagIn(wmsg.Body, queue')
               /\ wmsg.Body \in processed'
               /\ Key(IDOf(wmsg.Body)) \in DOMAIN store'
          /\ \A b \in BagToSet(queue) :
               CopiesIn(b, queue') < CopiesIn(b, queue) =>
                   /\ wpc = "delete" /\ wmsg.Body = b
                   /\ CopiesIn(b, deleted') = CopiesIn(b, deleted) + 1
         ]_vars
    /\ \A n \in 1..MaxPosts :
         (workerEnabled /\ JobEnqueued(n)) ~> (JobDeleted(n) \/ JobReprocessed(n))

\* The delete of job 1's message has failed: the worker is at its next
\* receive, nothing was deleted, the message is in the queue and the result
\* is stored.
C16_Witness ==
    /\ wpc = "receive"
    /\ wmsg = NoMessage
    /\ deleted = EmptyBag
    /\ \E b \in processed :
          /\ IDOf(b) = <<1>>
          /\ BagIn(b, queue)
          /\ Key(<<1>>) \in DOMAIN store


\* The positions of the loop at which the worker holds a received message.
Handling == {"process", "failed", "delete"}

\* C17: the worker holds at most one message: it holds one exactly while it
\* is processing, skipping or deleting, that message being one of the
\* queue, and none while it is receiving or backing off.  A message is
\* taken only by a receive made while none is held, and the worker comes
\* back to its receive only from the backoff, from the skip after a
\* processing that failed, or from the delete call, failed or not.
C17_OneMessageInFlight ==
    [][/\ wpc' \in Handling <=> wmsg' # NoMessage
       /\ wmsg' # NoMessage =>
            /\ DOMAIN wmsg' = {"Body", "Redelivered"}
            /\ BagIn(wmsg'.Body, queue')
       /\ (wmsg' # wmsg /\ wmsg' # NoMessage) =>
            /\ wpc = "receive" /\ wmsg = NoMessage
            /\ wpc' = "process"
       /\ (wpc' = "receive" /\ wpc # "receive") =>
            wpc \in {"sleep", "failed", "delete"}
       /\ (wpc = "process" /\ wpc' # wpc) => wpc' \in {"failed", "delete"}
      ]_vars

\* Two messages wait in the queue, and the worker holds one of them.
C17_Witness ==
    /\ wpc = "process"
    /\ BagCardinality(queue) = 2
    /\ BagIn(wmsg.Body, queue)
    /\ IDOf(wmsg.Body) = <<2>>
    /\ processed = {}


\* The positions of the worker loop.
LoopPositions == {"receive", "sleep"} \cup Handling

\* C18: a receive that fails changes neither the queue nor the bucket and
\* takes the worker to its backoff, from which it goes, unchanged, to a new
\* receive, and it always does.  In every state the enabled worker is at its
\* receive, backing off, or handling the one message it holds, and it has a
\* next step: no failure of a receive, of a processing or of a delete ends
\* the loop.
C18_WorkerNeverStops ==
    /\ [](workerEnabled =>
            /\ wpc \in LoopPositions
            /\ wpc \in Handling <=> wmsg # NoMessage
            /\ ENABLED <<workerLoop>>_vars)
    /\ [][/\ (wpc = "receive" /\ wpc' = "sleep") =>
               /\ queue' = queue
               /\ store' = store
               /\ deleted' = deleted
               /\ wmsg' = NoMessage
          /\ (wpc = "sleep" /\ wpc' # wpc) =>
               /\ wpc' = "receive"
               /\ queue' = queue
               /\ store' = store
               /\ deleted' = deleted
          /\ wpc \in LoopPositions => wpc' \in LoopPositions
         ]_vars
    /\ (wpc = "sleep") ~> (wpc = "receive")
    /\ (wpc \in Handling) ~> (wpc = "receive")

\* The worker is backing off after a failed receive, with a message waiting
\* in the queue and a result in the bucket.
C18_Witness ==
    /\ wpc = "sleep"
    /\ wmsg = NoMessage
    /\ \E b \in BagToSet(queue) : b \notin processed
    /\ DOMAIN store # {}


\* C19: every object of the bucket is stored under the key built from the
\* id in its own body, so that a GET /jobs/{k} answered with 200 returns
\* the id k.
C19_KeyMatchesBodyID ==
    /\ \A key \in DOMAIN store :
         /\ store[key].kind = "object"
         /\ key = Key(store[key].fields.id)
    /\ \A jobID \in (PathIDs \cup UsedIDs) \ {EmptyString} :
         LET resp == getJobResponse("GET", jobID, TRUE)
         IN resp.status = StatusOK => resp.body.fields.id = jobID
    /\ (AnsweredGet /\ lastResp.status = StatusOK) =>
         lastResp.body.fields.id = lastResp.req.text

\* The bucket holds the objects of two jobs, the first written twice, and
\* the GET of the first was answered with its id.
C19_Witness ==
    /\ DOMAIN store = {Key(<<1>>), Key(<<2>>)}
    /\ store[Key(<<1>>)].fields.processed_at = 2
    /\ AnsweredGet
    /\ lastResp.status = StatusOK
    /\ lastResp.req.text = <<1>>
    /\ lastResp.body.fields.id = <<1>>


\* A step of a handler of the front door: it moves a POST /jobs on or
\* records the response of another request.
HTTPStep == posts' # posts \/ lastResp' # lastResp

\* C20: a step of an HTTP handler leaves the bucket, the deleted messages
\* and the worker as they are, and leaves the queue as it is unless it is
\* the successful SendMessage of a POST /jobs, which adds that job's one
\* message.  The steps that answer GET /healthz, GET /readyz and
\* GET /jobs/{id}, a 400, a 404 or a 405, and the failed send of a POST
\* /jobs leave the queue unchanged.  Whatever the interleaving, the bucket
\* changes only in a step of the worker's processMessage and a message
\* leaves the queue only in a step of the worker's delete.
C20_HTTPOnlyEnqueues ==
    [][/\ HTTPStep =>
            /\ store' = store
            /\ deleted' = deleted
            /\ processed' = processed
            /\ rejected' = rejected
            /\ wpc' = wpc
            /\ wmsg' = wmsg
            /\ \/ queue' = queue
               \/ \E r \in 1..Len(posts) :
                     /\ posts[r].pc = "send"
                     /\ posts'[r].pc = "respond"
                     /\ queue' = queue (+) SetToBag({posts[r].messageBody})
            /\ lastResp' # lastResp => queue' = queue /\ posts' = posts
            /\ \A r \in 1..Len(posts) :
                  (posts[r].pc = "send" /\ posts'[r].status # 0) =>
                      /\ posts'[r].status = StatusInternalServerError
                      /\ queue' = queue
            /\ Len(posts') > Len(posts) => queue' = queue
       /\ store' # store => (wpc = "process" /\ wpc' = "delete" /\ ~HTTPStep)
       /\ (\E b \in BagToSet(queue) : CopiesIn(b, queue') < CopiesIn(b, queue)) =>
            (wpc = "delete" /\ wpc' = "receive" /\ ~HTTPStep)
      ]_vars

\* GET /readyz is answered 200 while the worker is about to delete a
\* message whose result is in the bucket, with another message waiting.
C20_Witness ==
    /\ lastResp.op = "readyz"
    /\ lastResp.method = "GET"
    /\ lastResp.status = StatusOK
    /\ wpc = "delete"
    /\ BagCardinality(queue) = 2
    /\ DOMAIN store # {}

====
